---- MODULE Spec2Model ----
(***************************************************************************)
(* A model of src/TicTacToe.py: the Board class (move, won, no_empty,      *)
(* minimax, best) and the driver loop of main().                           *)
(*                                                                         *)
(* Python objects are modelled with a two-level heap: `objs` holds the     *)
(* Board objects (their __dict__: a reference to the fields dict, and the  *)
(* player / opponent attributes as an attribute read resolves them, the    *)
(* class attributes TIC / TAC standing in while the instance has none),    *)
(* `dicts` holds the fields dictionaries.  References are indices.         *)
(***************************************************************************)
EXTENDS Integers, Sequences, FiniteSets, TLC

\* ---------------------------------------------------------------- constants
TIC == "X"
TAC == "O"
WIN_MARKER == "W"
EMPTY == "."
INT32_MIN == -2147483647 - 1
INT32_MAX == 2147483647
LOSING == -1
WINNING == 1
SIZE == 3
TIE == 0

\* Python's None, as the move component of a result and as "no value".
None == <<>>

\* ------------------------------------------------------------------- bounds
\* Arguments tried for move(x, y): from ArgUnder below 0 to ArgOver above
\* SIZE - 1.
ArgUnder == 1
ArgOver == 1
\* Board objects the Board-API specification keeps alive (the newest ones;
\* older ones are no longer referenced and are released).
KeepBoards == 3

ArgRange == (0 - ArgUnder) .. (SIZE - 1 + ArgOver)

\* -------------------------------------------------------------- Board state
\* range(self.size)
Range == 0 .. (SIZE - 1)

\* The keys of a fields dict in insertion order: y outer, x inner.
KeyOrder == [i \in 1 .. (SIZE * SIZE) |-> <<(i - 1) % SIZE, (i - 1) \div SIZE>>]

\* Board.__init__ without `other`: every key (x, y) set to EMPTY.
NewFields == [p \in {KeyOrder[i] : i \in 1 .. (SIZE * SIZE)} |-> EMPTY]

\* A Board value: the fields dict by value and the resolved attributes.
NewBoard == [fields |-> NewFields, player |-> TIC, opponent |-> TAC]

\* The value of the Board object r in heap h.
View(h, r) ==
  [fields |-> h.dicts[h.objs[r].fields],
   player |-> h.objs[r].player,
   opponent |-> h.objs[r].opponent]

\* The heap holding exactly one Board object, of value b.
HeapOf(b) ==
  [objs |-> << [fields |-> 1, player |-> b.player, opponent |-> b.opponent] >>,
   dicts |-> << b.fields >>]

\* Mutant of BoardCopy: a shallow copy, the new object's fields attribute
\* references the dict of `other`.
BoardCopyShallow(h, other) ==
  [objs |-> Append(h.objs, h.objs[other]), dicts |-> h.dicts]

\* Board(other): self.__dict__ = deepcopy(other.__dict__).  A new Board
\* object whose fields attribute is a new dict with the same items.
BoardCopy(h, other) ==
  [objs |-> Append(h.objs, [h.objs[other] EXCEPT !.fields = Len(h.dicts) + 1]),
   dicts |-> Append(h.dicts, h.dicts[h.objs[other].fields])]

\* Mutant of move: player and opponent are not swapped on the new board.
moveNoSwap(h, self, x, y) ==
  LET fs == h.dicts[h.objs[self].fields] IN
  IF ~(x < SIZE /\ y < SIZE)
  THEN [err |-> "AssertionError: Invalid move", h |-> h, ret |-> 0]
  ELSE IF <<x, y>> \notin DOMAIN fs
  THEN [err |-> "KeyError", h |-> h, ret |-> 0]
  ELSE IF fs[<<x, y>>] # EMPTY
  THEN [err |-> "AssertionError: Invalid non empty move", h |-> h, ret |-> 0]
  ELSE
    LET h1 == BoardCopy(h, self)
        board == Len(h1.objs)
        bd == h1.objs[board]
    IN [err |-> "none",
        h |-> [h1 EXCEPT !.dicts[bd.fields][<<x, y>>] = bd.player],
        ret |-> board]

\* Board.move on the heap.  err is "none" when a board is returned (ret is
\* its reference), else the exception that ends the call.
move(h, self, x, y) ==
  LET me == h.objs[self]
      fs == h.dicts[me.fields]
  IN
  IF ~(x < SIZE /\ y < SIZE)
  THEN [err |-> "AssertionError: Invalid move", h |-> h, ret |-> 0]
  ELSE IF <<x, y>> \notin DOMAIN fs
  THEN [err |-> "KeyError", h |-> h, ret |-> 0]
  ELSE IF fs[<<x, y>>] # EMPTY
  THEN [err |-> "AssertionError: Invalid non empty move", h |-> h, ret |-> 0]
  ELSE
    LET h1 == BoardCopy(h, self)
        board == Len(h1.objs)
        bd == h1.objs[board]
        h2 == [h1 EXCEPT !.dicts[bd.fields][<<x, y>>] = bd.player]
        h3 == [h2 EXCEPT !.objs[board] =
                 [bd EXCEPT !.player = bd.opponent, !.opponent = bd.player]]
    IN [err |-> "none", h |-> h3, ret |-> board]

\* self.move(x, y) as the search uses it, on an empty cell p of b: the value
\* of the returned board (lines 47-48 applied to the copy).
moveV(b, p) ==
  [fields |-> [b.fields EXCEPT ![p] = b.player],
   player |-> b.opponent,
   opponent |-> b.player]

\* Board.no_empty
no_empty(fields) == \A i \in 1 .. Len(KeyOrder) : fields[KeyOrder[i]] # EMPTY

\* The lines won() scans, in its order, each as the cells it visits.
RowCells(y) == [i \in 1 .. SIZE |-> <<i - 1, y>>]
ColCells(x) == [i \in 1 .. SIZE |-> <<x, i - 1>>]
DiagCells == [i \in 1 .. SIZE |-> <<i - 1, i - 1>>]
AntiCells == [i \in 1 .. SIZE |-> <<SIZE - 1 - (i - 1), i - 1>>]
Lines ==
  [i \in 1 .. (2 * SIZE + 2) |->
     IF i <= SIZE THEN RowCells(i - 1)
     ELSE IF i <= 2 * SIZE THEN ColCells(i - SIZE - 1)
     ELSE IF i = 2 * SIZE + 1 THEN DiagCells
     ELSE AntiCells]

\* Mutant of Winning: the cells of the player's mark are collected.
WinningOfPlayer(b, line) == SelectSeq(line, LAMBDA p : b.fields[p] = b.player)

\* The `winning` list won() builds for one line.
Winning(b, line) == SelectSeq(line, LAMBDA p : b.fields[p] = b.opponent)

RECURSIVE WonFrom(_, _)
WonFrom(b, i) ==
  IF i > Len(Lines) THEN <<FALSE, <<>> >>
  ELSE IF Len(Winning(b, Lines[i])) = SIZE THEN <<TRUE, Winning(b, Lines[i])>>
  ELSE WonFrom(b, i + 1)

\* Board.won
won(b) == WonFrom(b, 1)

\* Board.minimax.  The two loops are MaxLoop and MinLoop: i is the position
\* in the iteration over self.fields, best the running best.
RECURSIVE minimax(_, _)
RECURSIVE MaxLoop(_, _, _)
RECURSIVE MinLoop(_, _, _)

\* Mutant of MaxLoop: the break follows every improvement.
MaxLoopEarly(b, i, best) ==
  IF i > Len(KeyOrder) THEN best
  ELSE IF b.fields[KeyOrder[i]] # EMPTY THEN MaxLoop(b, i + 1, best)
  ELSE
    LET value == minimax(moveV(b, KeyOrder[i]), FALSE)[1] IN
    IF value > best[1] THEN <<value, KeyOrder[i]>>
    ELSE MaxLoop(b, i + 1, best)

\* Mutant of MaxLoop: >= in place of >, an equal value replaces the best.
MaxLoopLast(b, i, best) ==
  IF i > Len(KeyOrder) THEN best
  ELSE IF b.fields[KeyOrder[i]] # EMPTY THEN MaxLoop(b, i + 1, best)
  ELSE
    LET value == minimax(moveV(b, KeyOrder[i]), FALSE)[1] IN
    IF value >= best[1]
    THEN IF value = WINNING THEN <<value, KeyOrder[i]>>
         ELSE MaxLoop(b, i + 1, <<value, KeyOrder[i]>>)
    ELSE MaxLoop(b, i + 1, best)

MaxLoop(b, i, best) ==
  IF i > Len(KeyOrder) THEN best
  ELSE IF b.fields[KeyOrder[i]] # EMPTY THEN MaxLoop(b, i + 1, best)
  ELSE
    LET value == minimax(moveV(b, KeyOrder[i]), FALSE)[1] IN
    IF value > best[1]
    THEN IF value = WINNING THEN <<value, KeyOrder[i]>>
         ELSE MaxLoop(b, i + 1, <<value, KeyOrder[i]>>)
    ELSE MaxLoop(b, i + 1, best)

\* Mutant of MinLoop: the break follows every improvement.
MinLoopEarly(b, i, best) ==
  IF i > Len(KeyOrder) THEN best
  ELSE IF b.fields[KeyOrder[i]] # EMPTY THEN MinLoop(b, i + 1, best)
  ELSE
    LET value == minimax(moveV(b, KeyOrder[i]), TRUE)[1] IN
    IF value < best[1] THEN <<value, KeyOrder[i]>>
    ELSE MinLoop(b, i + 1, best)

MinLoop(b, i, best) ==
  IF i > Len(KeyOrder) THEN best
  ELSE IF b.fields[KeyOrder[i]] # EMPTY THEN MinLoop(b, i + 1, best)
  ELSE
    LET value == minimax(moveV(b, KeyOrder[i]), TRUE)[1] IN
    IF value < best[1]
    THEN IF value = LOSING THEN <<value, KeyOrder[i]>>
         ELSE MinLoop(b, i + 1, <<value, KeyOrder[i]>>)
    ELSE MinLoop(b, i + 1, best)

\* Mutant of minimax: LOSING and WINNING exchanged in the won() base case.
minimaxSwapped(b, is_opponent_move) ==
  IF won(b)[1]
  THEN IF is_opponent_move THEN <<WINNING, None>> ELSE <<LOSING, None>>
  ELSE IF no_empty(b.fields) THEN <<TIE, None>>
  ELSE IF is_opponent_move THEN MaxLoop(b, 1, <<INT32_MIN, None>>)
  ELSE MinLoop(b, 1, <<INT32_MAX, None>>)

\* Mutant of minimax: the no_empty() base case is missing.
minimaxNoTie(b, is_opponent_move) ==
  IF won(b)[1]
  THEN IF is_opponent_move THEN <<LOSING, None>> ELSE <<WINNING, None>>
  ELSE IF is_opponent_move THEN MaxLoop(b, 1, <<INT32_MIN, None>>)
  ELSE MinLoop(b, 1, <<INT32_MAX, None>>)

minimax(b, is_opponent_move) ==
  IF won(b)[1]
  THEN IF is_opponent_move THEN <<LOSING, None>> ELSE <<WINNING, None>>
  ELSE IF no_empty(b.fields) THEN <<TIE, None>>
  ELSE IF is_opponent_move THEN MaxLoop(b, 1, <<INT32_MIN, None>>)
  ELSE MinLoop(b, 1, <<INT32_MAX, None>>)

\* Mutant of best: the index is missing, the (score, move) pair is returned.
bestPair(b) == minimax(b, TRUE)

\* Board.best
best(b) == minimax(b, TRUE)[2]

\* ------------------------------------------------------------------- state
\* objs, dicts   the heap: Board objects and fields dicts
\* last          the driver's `last` (a reference); the board under test
\* game_history  the driver's list of references
\* pc            the position in main()'s loop, or the name of the harness
\* said          what check_win printed ("" before it prints)
\* bot_vs_bot    BOT_VS_BOT
\* ret           the outcome of the latest call made on the board under test
\* moves         the number of moves applied since Board()
VARIABLES objs, dicts, last, game_history, pc, said, bot_vs_bot, ret, moves

vars == <<objs, dicts, last, game_history, pc, said, bot_vs_bot, ret, moves>>

Heap == [objs |-> objs, dicts |-> dicts]
Last == View(Heap, last)

NoCall == [op |-> "none", err |-> "none"]

\* Release all but the newest `keep` Board objects, and the dicts that no
\* kept object references; references are renumbered.  drop is the number
\* of Board objects released.
Trim(h, keep) ==
  LET n == Len(h.objs)
      drop == IF n > keep THEN n - keep ELSE 0
      kept == SubSeq(h.objs, drop + 1, n)
      used == {kept[i].fields : i \in 1 .. Len(kept)}
      live == SelectSeq([d \in 1 .. Len(h.dicts) |-> d], LAMBDA d : d \in used)
      ren(d) == CHOOSE j \in 1 .. Len(live) : live[j] = d
  IN IF drop = 0 THEN [objs |-> h.objs, dicts |-> h.dicts, drop |-> 0]
     ELSE [objs |-> [i \in 1 .. Len(kept) |->
                      [kept[i] EXCEPT !.fields = ren(kept[i].fields)]],
           dicts |-> [j \in 1 .. Len(live) |-> h.dicts[live[j]]],
           drop |-> drop]

\* ------------------------------------------------- the Board API, any calls
\* A program that creates Board() and calls move(x, y) on the newest board
\* with any arguments.  An exception ends it: the boards it held are
\* released, the board the failing call was made on is kept for inspection.
InitBoard ==
  /\ objs = HeapOf(NewBoard).objs
  /\ dicts = HeapOf(NewBoard).dicts
  /\ last = 1
  /\ game_history = <<>>
  /\ pc = "api"
  /\ said = ""
  /\ bot_vs_bot = FALSE
  /\ ret = NoCall
  /\ moves = 0

CallMove(x, y) ==
  /\ pc = "api"
  /\ ret.err = "none"
  /\ LET r == move(Heap, last, x, y)
         t == Trim(r.h, KeepBoards)
     IN IF r.err = "none"
        THEN /\ objs' = t.objs
             /\ dicts' = t.dicts
             /\ last' = r.ret - t.drop
             /\ moves' = moves + 1
             /\ ret' = [op |-> "move", err |-> "none", x |-> x, y |-> y,
                        self |-> last - t.drop, drop |-> t.drop]
        ELSE /\ objs' = HeapOf(View(r.h, last)).objs
             /\ dicts' = HeapOf(View(r.h, last)).dicts
             /\ last' = 1
             /\ ret' = [op |-> "move", err |-> r.err, x |-> x, y |-> y,
                        self |-> 1, drop |-> last - 1]
             /\ UNCHANGED moves
  /\ UNCHANGED <<game_history, pc, said, bot_vs_bot>>

NextBoard == \E x \in ArgRange, y \in ArgRange : CallMove(x, y)

SpecBoard == InitBoard /\ [][NextBoard]_vars

\* ------------------------------------- chains of moves to cells of the grid
\* A program that creates Board() and keeps calling move(x, y) on the board
\* returned last, x and y in range(size), whether or not a line is
\* complete; the board moved from is released.  An exception ends it.
InitMoves ==
  /\ objs = HeapOf(NewBoard).objs
  /\ dicts = HeapOf(NewBoard).dicts
  /\ last = 1
  /\ game_history = <<>>
  /\ pc = "moves"
  /\ said = ""
  /\ bot_vs_bot = FALSE
  /\ ret = NoCall
  /\ moves = 0

MoveOn(x, y) ==
  /\ pc = "moves"
  /\ ret.err = "none"
  /\ LET r == move(Heap, last, x, y) IN
     IF r.err = "none"
     THEN /\ objs' = HeapOf(View(r.h, r.ret)).objs
          /\ dicts' = HeapOf(View(r.h, r.ret)).dicts
          /\ moves' = moves + 1
          /\ ret' = [op |-> "move", err |-> "none", x |-> x, y |-> y]
     ELSE /\ ret' = [op |-> "move", err |-> r.err, x |-> x, y |-> y]
          /\ UNCHANGED <<objs, dicts, moves>>
  /\ UNCHANGED <<last, game_history, pc, said, bot_vs_bot>>

NextMoves == \E x \in Range, y \in Range : MoveOn(x, y)

SpecMoves == InitMoves /\ [][NextMoves]_vars

\* ------------------------------------------------------- won() on any board
\* The keys of a fields dict and the values a cell takes.
Cells == DOMAIN NewFields
Marks == {TIC, TAC}

\* A board with any cell values and either labelling, and one call of won().
InitWon ==
  /\ \E f \in [Cells -> Marks \cup {EMPTY}], p \in Marks :
       /\ objs = << [fields |-> 1, player |-> p,
                     opponent |-> IF p = TIC THEN TAC ELSE TIC] >>
       /\ dicts = << f >>
  /\ last = 1
  /\ game_history = <<>>
  /\ pc = "won"
  /\ said = ""
  /\ bot_vs_bot = FALSE
  /\ ret = NoCall
  /\ moves = 0

CallWon ==
  /\ pc = "won"
  /\ ret.op = "none"
  /\ ret' = [op |-> "won", err |-> "none", val |-> won(Last)]
  /\ UNCHANGED <<objs, dicts, last, game_history, pc, said, bot_vs_bot, moves>>

SpecWon == InitWon /\ [][CallWon]_vars

\* ------------------------------------------- the search on reachable boards
\* Legal alternating play from Board(): a move goes to an empty cell of a
\* board on which won() is false; the board moved from is released.  On
\* each board reached one query is made: minimax (pc = "search") or best
\* (pc = "best").
Play(x, y) ==
  /\ pc \in {"search", "best"}
  /\ ~won(Last)[1]
  /\ LET r == move(Heap, last, x, y) IN
     /\ r.err = "none"
     /\ objs' = HeapOf(View(r.h, r.ret)).objs
     /\ dicts' = HeapOf(View(r.h, r.ret)).dicts
  /\ last' = 1
  /\ moves' = moves + 1
  /\ ret' = NoCall
  /\ UNCHANGED <<game_history, pc, said, bot_vs_bot>>

CallMinimax(is_opponent_move) ==
  /\ pc = "search"
  /\ ret.op = "none"
  /\ ret' = [op |-> "minimax", err |-> "none", flag |-> is_opponent_move,
             val |-> minimax(Last, is_opponent_move)]
  /\ UNCHANGED <<objs, dicts, last, game_history, pc, said, bot_vs_bot, moves>>

CallBest ==
  /\ pc = "best"
  /\ ret.op = "none"
  /\ ret' = [op |-> "best", err |-> "none", val |-> best(Last)]
  /\ UNCHANGED <<objs, dicts, last, game_history, pc, said, bot_vs_bot, moves>>

NextSearch ==
  \/ \E x \in Range, y \in Range : Play(x, y)
  \/ \E f \in BOOLEAN : CallMinimax(f)

SpecSearch ==
  /\ objs = HeapOf(NewBoard).objs /\ dicts = HeapOf(NewBoard).dicts /\ last = 1
  /\ game_history = <<>> /\ pc = "search" /\ said = "" /\ bot_vs_bot = FALSE
  /\ ret = NoCall /\ moves = 0
  /\ [][NextSearch]_vars

NextBest ==
  \/ \E x \in Range, y \in Range : Play(x, y)
  \/ CallBest

SpecBest ==
  /\ objs = HeapOf(NewBoard).objs /\ dicts = HeapOf(NewBoard).dicts /\ last = 1
  /\ game_history = <<>> /\ pc = "best" /\ said = "" /\ bot_vs_bot = FALSE
  /\ ret = NoCall /\ moves = 0
  /\ [][NextBest]_vars
\* ------------------------------------------- the search on any late board
\* Any board with exactly one empty cell (any marks in the other eight,
\* either labelling), and one call of minimax on it.
InitOneLeft ==
  /\ \E f \in {g \in [Cells -> Marks \cup {EMPTY}] :
                 Cardinality({c \in Cells : g[c] = EMPTY}) = 1},
        p \in Marks :
       /\ objs = << [fields |-> 1, player |-> p,
                     opponent |-> IF p = TIC THEN TAC ELSE TIC] >>
       /\ dicts = << f >>
  /\ last = 1
  /\ game_history = <<>>
  /\ pc = "search"
  /\ said = ""
  /\ bot_vs_bot = FALSE
  /\ ret = NoCall
  /\ moves = 8

NextOneLeft == \E f \in BOOLEAN : CallMinimax(f)

SpecOneLeft == InitOneLeft /\ [][NextOneLeft]_vars

\* ------------------------------------- both flags on boards of legal play
\* minimax(True) and minimax(False) called on the same board.
CallBothFlags ==
  /\ pc = "search"
  /\ ret.op = "none"
  /\ ret' = [op |-> "flags", err |-> "none",
             asOpponent |-> minimax(Last, TRUE),
             asPlayer |-> minimax(Last, FALSE)]
  /\ UNCHANGED <<objs, dicts, last, game_history, pc, said, bot_vs_bot, moves>>

NextFlags ==
  \/ \E x \in Range, y \in Range : Play(x, y)
  \/ CallBothFlags

SpecFlags ==
  /\ objs = HeapOf(NewBoard).objs /\ dicts = HeapOf(NewBoard).dicts /\ last = 1
  /\ game_history = <<>> /\ pc = "search" /\ said = "" /\ bot_vs_bot = FALSE
  /\ ret = NoCall /\ moves = 0
  /\ [][NextFlags]_vars

\* --------------------------------------------- won() on boards of legal play
\* Mutant of MoveLegal: the move is applied whether or not won() is true.
MoveAfterWin(x, y) ==
  /\ pc = "legal"
  /\ LET r == move(Heap, last, x, y) IN
     /\ r.err = "none"
     /\ objs' = HeapOf(View(r.h, r.ret)).objs
     /\ dicts' = HeapOf(View(r.h, r.ret)).dicts
  /\ last' = 1
  /\ moves' = moves + 1
  /\ ret' = NoCall
  /\ UNCHANGED <<game_history, pc, said, bot_vs_bot>>

\* Legal alternating play from Board(): a move goes to an empty cell of a
\* board on which won() is false; the board moved from is released.
MoveLegal(x, y) ==
  /\ pc = "legal"
  /\ ~won(Last)[1]
  /\ LET r == move(Heap, last, x, y) IN
     /\ r.err = "none"
     /\ objs' = HeapOf(View(r.h, r.ret)).objs
     /\ dicts' = HeapOf(View(r.h, r.ret)).dicts
  /\ last' = 1
  /\ moves' = moves + 1
  /\ ret' = NoCall
  /\ UNCHANGED <<game_history, pc, said, bot_vs_bot>>

\* One call of won() on the board reached.
WonLegal ==
  /\ pc = "legal"
  /\ ret.op = "none"
  /\ ret' = [op |-> "won", err |-> "none", val |-> won(Last)]
  /\ UNCHANGED <<objs, dicts, last, game_history, pc, said, bot_vs_bot, moves>>

NextLegal ==
  \/ \E x \in Range, y \in Range : MoveLegal(x, y)
  \/ WonLegal

SpecLegal ==
  /\ objs = HeapOf(NewBoard).objs /\ dicts = HeapOf(NewBoard).dicts /\ last = 1
  /\ game_history = <<>> /\ pc = "legal" /\ said = "" /\ bot_vs_bot = FALSE
  /\ ret = NoCall /\ moves = 0
  /\ [][NextLegal]_vars

\* ---------------------------------------------------------- main(), driver
\* pc: "check1" (line 212 / 216), "iter1" (line 214 / 218), "check2"
\* (line 220), "iter2" (line 222), "history" (lines 224-226), "exit", and
\* "raised" after an uncaught exception (ret names it).
Init ==
  /\ objs = HeapOf(NewBoard).objs
  /\ dicts = HeapOf(NewBoard).dicts
  /\ last = 1
  /\ game_history = <<>>
  /\ pc = "check1"
  /\ said = ""
  /\ bot_vs_bot \in BOOLEAN
  /\ ret = NoCall
  /\ moves = 0

\* check_win(current_username): what it prints ("" for nothing) and returns.
check_win(b, current_username) ==
  IF no_empty(b.fields) THEN [said |-> "Tie!", val |-> TRUE]
  ELSE IF won(b)[1] THEN [said |-> current_username \o " lost!", val |-> TRUE]
  ELSE [said |-> "", val |-> FALSE]

\* Mutant of CheckWin: the loop does not break when check_win returns True.
CheckWinNoBreak(at, current_username, next) ==
  /\ pc = at
  /\ said' = check_win(Last, current_username).said
  /\ pc' = next
  /\ UNCHANGED <<objs, dicts, last, game_history, bot_vs_bot, ret, moves>>

\* The loop's check_win calls: on True the loop breaks.
CheckWin(at, current_username, next) ==
  /\ pc = at
  /\ LET c == check_win(Last, current_username) IN
     /\ said' = c.said
     /\ pc' = IF c.val THEN "history" ELSE next
  /\ UNCHANGED <<objs, dicts, last, game_history, bot_vs_bot, ret, moves>>

\* last = last.move(x, y); game_history.append(last) -- or the exception.
ApplyMove(x, y, next) ==
  LET r == move(Heap, last, x, y) IN
  IF r.err = "none"
  THEN /\ objs' = r.h.objs
       /\ dicts' = r.h.dicts
       /\ last' = r.ret
       /\ game_history' = Append(game_history, r.ret)
       /\ moves' = moves + 1
       /\ pc' = next
       /\ UNCHANGED <<said, bot_vs_bot, ret>>
  ELSE /\ ret' = [op |-> "raise", err |-> r.err]
       /\ pc' = "raised"
       /\ UNCHANGED <<objs, dicts, last, game_history, said, bot_vs_bot, moves>>

\* game_iter(True): the two integers read from the console.
GameIterHuman(at, next) ==
  /\ pc = at
  /\ \E x \in ArgRange, y \in ArgRange : ApplyMove(x, y, next)

\* Mutant of GameIterBot: the random opening coordinates are drawn from the
\* wider range of the console inputs.
GameIterBotWide(at, next) ==
  /\ pc = at
  /\ IF Len(game_history) = 0
     THEN \E x \in ArgRange, y \in ArgRange : ApplyMove(x, y, next)
     ELSE \E mv \in {best(Last)} :
          IF mv = None
          THEN /\ ret' = [op |-> "raise", err |-> "AssertionError: Invalid state"]
               /\ pc' = "raised"
               /\ UNCHANGED <<objs, dicts, last, game_history, said, bot_vs_bot, moves>>
          ELSE ApplyMove(mv[1], mv[2], next)

\* game_iter(False): a random cell while game_history is empty, else best().
GameIterBot(at, next) ==
  /\ pc = at
  /\ IF Len(game_history) = 0
     THEN \E x \in Range, y \in Range : ApplyMove(x, y, next)
     ELSE \E mv \in {best(Last)} :
          IF mv = None
          THEN /\ ret' = [op |-> "raise", err |-> "AssertionError: Invalid state"]
               /\ pc' = "raised"
               /\ UNCHANGED <<objs, dicts, last, game_history, said, bot_vs_bot, moves>>
          ELSE ApplyMove(mv[1], mv[2], next)

\* The game history is printed and main() returns.
PrintHistory ==
  /\ pc = "history"
  /\ pc' = "exit"
  /\ UNCHANGED <<objs, dicts, last, game_history, said, bot_vs_bot, ret, moves>>

Next ==
  \/ bot_vs_bot /\ CheckWin("check1", "BotA", "iter1")
  \/ bot_vs_bot /\ GameIterBot("iter1", "check2")
  \/ ~bot_vs_bot /\ CheckWin("check1", "Human", "iter1")
  \/ ~bot_vs_bot /\ GameIterHuman("iter1", "check2")
  \/ CheckWin("check2", "BotB", "iter2")
  \/ GameIterBot("iter2", "check1")
  \/ PrintHistory

Spec == Init /\ [][Next]_vars

\* It is a bot's turn: game_iter(False) is about to run.
BotTurn == pc = "iter2" \/ (pc = "iter1" /\ bot_vs_bot)

\* The bot's turn comes to an end: game_iter(False) returns to the loop or
\* raises.
BotTurnEnds == BotTurn /\ pc' \in {"check1", "check2", "raised"}

\* The driver as a running program.  The interpreter keeps executing
\* main() and the console input it waits for arrives: a step of the loop
\* that can be taken is taken.  A bot turn is a finite computation (the
\* recursion of minimax is at most 9 moves deep), so it comes to an end.
SpecLive == Spec /\ WF_vars(~BotTurn /\ Next) /\ WF_pc(BotTurnEnds)
\* ================================================================== claims
\* The eight lines of the grid, written out: rows y = 0, 1, 2, columns
\* x = 0, 1, 2, the main diagonal, the anti-diagonal; each in scan order.
GridLines ==
  << << <<0, 0>>, <<1, 0>>, <<2, 0>> >>,
     << <<0, 1>>, <<1, 1>>, <<2, 1>> >>,
     << <<0, 2>>, <<1, 2>>, <<2, 2>> >>,
     << <<0, 0>>, <<0, 1>>, <<0, 2>> >>,
     << <<1, 0>>, <<1, 1>>, <<1, 2>> >>,
     << <<2, 0>>, <<2, 1>>, <<2, 2>> >>,
     << <<0, 0>>, <<1, 1>>, <<2, 2>> >>,
     << <<2, 0>>, <<1, 1>>, <<0, 2>> >> >>

\* Line i of the grid consists entirely of mark m.
Complete(f, i, m) == \A k \in 1 .. 3 : f[GridLines[i][k]] = m
HasLine(f, m) == \E i \in 1 .. 8 : Complete(f, i, m)

EmptyCells(f) == {p \in DOMAIN f : f[p] = EMPTY}
Filled(f) == Cardinality(DOMAIN f) - Cardinality(EmptyCells(f))

\* The board is terminal: the side that just moved has a complete line, or
\* no cell is empty.
GameOver(b) == HasLine(b.fields, b.opponent) \/ EmptyCells(b.fields) = {}

\* The position of a cell in the scan y ascending, then x ascending.
Rank(p) == p[2] * 3 + p[1]

\* ---- C1
\* C1: in a human-vs-bot game (the human moves first, any input; the bot
\* replies with move(*best())) no board of the game has a complete line of
\* the human's mark TIC, and check_win never prints "BotB lost!".
C1_Unbeatable ==
  ~bot_vs_bot =>
    /\ \A r \in 1 .. Len(objs) : ~HasLine(View(Heap, r).fields, TIC)
    /\ said # "BotB lost!"

\* A human-vs-bot game played to the full board.
C1_Witness ==
  /\ ~bot_vs_bot
  /\ pc = "exit"
  /\ Len(game_history) = SIZE * SIZE
  /\ Filled(Last.fields) = SIZE * SIZE

\* ---- C2
\* The reference: the value of every board of legal alternating play by
\* backward induction over the complete game tree, all replies examined.
\* RefLevels[k + 1] is the set of boards with k marks.
RECURSIVE RefLevelsUpTo(_)
RefLevelsUpTo(k) ==
  IF k = 0 THEN << {NewBoard} >>
  ELSE LET s == RefLevelsUpTo(k - 1) IN
       Append(s, UNION {{moveV(b, p) : p \in EmptyCells(b.fields)} :
                          b \in {c \in s[k] : ~HasLine(c.fields, c.opponent)}})

RefLevels == RefLevelsUpTo(9)

\* win: the side to move can force a win; lose: the side that just moved
\* has won or can force a win.  For the boards with at least k marks.
RECURSIVE RefWinLose(_)
RefWinLose(k) ==
  IF k = 9
  THEN [win |-> {}, lose |-> {b \in RefLevels[10] : HasLine(b.fields, b.opponent)}]
  ELSE LET nxt == RefWinLose(k + 1)
           bs == RefLevels[k + 1]
       IN [win |-> nxt.win \cup
                   {b \in bs : /\ ~HasLine(b.fields, b.opponent)
                               /\ \E p \in EmptyCells(b.fields) : moveV(b, p) \in nxt.lose},
           lose |-> nxt.lose \cup
                    {b \in bs : \/ HasLine(b.fields, b.opponent)
                                \/ \A p \in EmptyCells(b.fields) : moveV(b, p) \in nxt.win}]

RefSets == RefWinLose(0)

RefValue(b) ==
  IF b \in RefSets.win THEN 1 ELSE IF b \in RefSets.lose THEN -1 ELSE 0

\* C2: on every board of legal alternating play the score of
\* minimax(board, True) is the game-theoretic value for the side to move.
C2_ScoreIsGameValue ==
  (ret.op = "minimax" /\ ret.flag) => ret.val[1] = RefValue(Last)

\* A forced win found on a board with several empty cells: a cutoff.
C2_Witness ==
  /\ ret.op = "minimax" /\ ret.flag
  /\ ret.val[1] = WINNING /\ RefValue(Last) = 1
  /\ moves = 4
  /\ ret.val[2] # None

\* ---- C3
\* C3: on the empty board minimax returns score TIE for either flag.
C3_EmptyBoardTie ==
  (ret.op = "minimax" /\ moves = 0) => ret.val[1] = TIE

C3_Witness ==
  /\ ret.op = "minimax" /\ moves = 0 /\ ~ret.flag
  /\ Filled(Last.fields) = 0
  /\ ret.val[1] = TIE

\* ---- C4
\* C4: a successful move(x, y) leaves the board it is called on, and every
\* older board, as it was; the returned board has the input's player at
\* (x, y), the input's other cells, and player / opponent exchanged.
C4_MovePure ==
  [][(ret'.op = "move" /\ ret'.err = "none") =>
       LET in == Last
           out == Last'
           x == ret'.x
           y == ret'.y
       IN /\ in.fields[<<x, y>>] = EMPTY
          /\ \A i \in 1 .. Len(objs) :
               i > ret'.drop =>
                 /\ i - ret'.drop \in 1 .. (Len(objs') - 1)
                 /\ View(Heap, i) = [fields |-> dicts'[objs'[i - ret'.drop].fields],
                                     player |-> objs'[i - ret'.drop].player,
                                     opponent |-> objs'[i - ret'.drop].opponent]
          /\ ret'.self = last - ret'.drop
          /\ out.fields[<<x, y>>] = in.player
          /\ \A p \in DOMAIN in.fields : p # <<x, y>> => out.fields[p] = in.fields[p]
          /\ DOMAIN out.fields = DOMAIN in.fields
          /\ out.player = in.opponent /\ out.opponent = in.player]_vars

\* A move applied to a returned board while its parent is still held.
C4_Witness ==
  /\ ret.op = "move" /\ ret.err = "none"
  /\ Len(objs) >= 3
  /\ last = Len(objs)
  /\ Filled(View(Heap, last).fields) = Filled(View(Heap, last - 2).fields) + 2

\* ---- C5
InvalidMoveErrors ==
  {"AssertionError: Invalid move", "AssertionError: Invalid non empty move"}

\* C5: move(x, y) with x or y outside 0 .. size - 1 (negative values
\* included) or with a non-empty target cell fails with an invalid-move
\* error, returns no board and leaves the input board unchanged.
C5_InvalidMoveFails ==
  [][(ret'.op = "move" /\
        (\/ ret'.x \notin 0 .. 2
         \/ ret'.y \notin 0 .. 2
         \/ Last.fields[<<ret'.x, ret'.y>>] # EMPTY)) =>
       /\ ret'.err \in InvalidMoveErrors
       /\ Last' = Last
       /\ moves' = moves]_vars

C7_FirstBestCell ==
  (ret.op = "best" /\ ~GameOver(Last)) =>
    LET b == Last
        scored == {<<p, minimax(moveV(b, p), FALSE)[1]>> : p \in EmptyCells(b.fields)}
        top == CHOOSE v \in {e[2] : e \in scored} : \A e \in scored : e[2] <= v
        tops == {e[1] : e \in {g \in scored : g[2] = top}}
    IN ret.val = CHOOSE p \in tops : \A q \in tops : Rank(p) <= Rank(q)

\* Several cells share the greatest value and a later one is not taken.
C7_Witness ==
  /\ ret.op = "best" /\ ~GameOver(Last)
  /\ moves = 2
  /\ ret.val # None
  /\ \E q \in EmptyCells(Last.fields) :
       /\ Rank(q) > Rank(ret.val)
       /\ minimax(moveV(Last, q), FALSE)[1] = minimax(moveV(Last, ret.val), FALSE)[1]

C9_BoardInvariants ==
  /\ [](LET b == Last IN
         /\ DOMAIN b.fields = (0 .. 2) \X (0 .. 2)
         /\ \A p \in DOMAIN b.fields : b.fields[p] \in {EMPTY, TIC, TAC}
         /\ {b.player, b.opponent} = {TIC, TAC}
         /\ b.player # b.opponent
         /\ b.player = TIC <=> moves % 2 = 0
         /\ Filled(b.fields) = moves)
  /\ [][LET old == dicts[objs[last].fields]
            new == dicts'[objs'[last'].fields]
        IN \A p \in DOMAIN old : old[p] # EMPTY => new[p] = old[p]]_vars

\* Nine moves applied: a full board, TAC to move.
C9_Witness ==
  /\ moves = 9
  /\ ret.op = "move" /\ ret.err = "none"
  /\ Filled(Last.fields) = 9
  /\ Last.player = TAC

\* ---- C10
\* Eight cells filled and no complete line of either mark.
OneCellLeft(b) ==
  /\ Filled(b.fields) = 8
  /\ ~HasLine(b.fields, TIC) /\ ~HasLine(b.fields, TAC)

TheEmptyCell(b) == CHOOSE p \in EmptyCells(b.fields) : TRUE

\* C10 as stated: with 8 cells filled and no winner minimax(board, True)
\* returns the remaining cell with score TIE, and best() that cell.
C10_LastCellTie ==
  (ret.op = "minimax" /\ ret.flag /\ OneCellLeft(Last)) =>
    /\ ret.val = <<TIE, TheEmptyCell(Last)>>
    /\ best(Last) = TheEmptyCell(Last)

\* C10 amended: the remaining cell is returned by both; the score is TIE
\* when the move there completes no line and WINNING when it completes one.
C10_LastCellScore ==
  (ret.op = "minimax" /\ ret.flag /\ OneCellLeft(Last)) =>
    /\ ret.val[2] = TheEmptyCell(Last)
    /\ best(Last) = TheEmptyCell(Last)
    /\ ret.val[1] =
         IF HasLine(moveV(Last, TheEmptyCell(Last)).fields, Last.player)
         THEN WINNING ELSE TIE

\* The last cell completes no line: the score is TIE.
C10_Witness ==
  /\ ret.op = "minimax" /\ ret.flag /\ OneCellLeft(Last)
  /\ ret.val = <<TIE, TheEmptyCell(Last)>>
  /\ best(Last) = TheEmptyCell(Last)

\* ---- C11
\* The one empty cell of the board completes a line of the side to move,
\* and no line of either mark is complete yet.
WinningLastCell(b) ==
  /\ OneCellLeft(b)
  /\ HasLine(moveV(b, TheEmptyCell(b)).fields, b.player)

\* C11: on every board with no complete line and exactly one empty cell,
\* where the mark of the side to move in that cell completes a line,
\* minimax(board, True) returns the score WINNING and best() returns the
\* coordinate of that cell.
C11_LastCellWins ==
  (ret.op = "minimax" /\ ret.flag /\ WinningLastCell(Last)) =>
    /\ ret.val[1] = WINNING
    /\ best(Last) = TheEmptyCell(Last)

\* The centre is the empty cell and completes both diagonals.
C11_Witness ==
  /\ ret.op = "minimax" /\ ret.flag /\ WinningLastCell(Last)
  /\ TheEmptyCell(Last) = <<1, 1>>
  /\ ret.val = <<WINNING, <<1, 1>>>>
  /\ best(Last) = <<1, 1>>

\* ---- C12
\* Every candidate move of the side to move leaves the game unfinished (no
\* line of the mover, a cell still empty), and after each of them the other
\* side has a reply that completes a line of its own mark.
EveryMoveLoses(b) ==
  \A p \in EmptyCells(b.fields) :
    LET c == moveV(b, p) IN
    /\ ~GameOver(c)
    /\ \E q \in EmptyCells(c.fields) : HasLine(moveV(c, q).fields, c.player)

\* C12: on a non-terminal board of legal play on which every candidate
\* move leaves the game unfinished and allows an immediate line-completing
\* reply, minimax(board, True) returns the score LOSING.
C12_ForcedLoss ==
  (ret.op = "minimax" /\ ret.flag /\ ~GameOver(Last) /\ EveryMoveLoses(Last)) =>
    ret.val[1] = LOSING

\* A double threat against the side to move, with several cells to choose
\* from: the search returns LOSING with the first cell scanned.
C12_Witness ==
  /\ ret.op = "minimax" /\ ret.flag /\ ~GameOver(Last) /\ EveryMoveLoses(Last)
  /\ Cardinality(EmptyCells(Last.fields)) >= 3
  /\ ret.val[1] = LOSING
  /\ ret.val[2] \in EmptyCells(Last.fields)

\* ---- C13
\* The lines of the grid that consist entirely of mark m.
CompleteLines(f, m) == {i \in 1 .. 8 : Complete(f, i, m)}

\* The cells of line i, as a set.
LineCells(i) == {GridLines[i][k] : k \in 1 .. 3}

\* C13 as stated: with legal alternating play no board has two or more
\* complete lines of the same mark, so won() has at most one satisfied
\* line to choose from.
C13_AtMostOneLine ==
  \A m \in Marks : Cardinality(CompleteLines(Last.fields, m)) <= 1

\* C13 amended: with legal alternating play the side to move never has a
\* complete line; the side that moved last has at most two, and two
\* complete lines cross in exactly one cell; won() returns the first
\* complete line in its scan order.
C13_AtMostTwoCrossing ==
  LET f == Last.fields
      done == CompleteLines(f, Last.opponent)
  IN /\ CompleteLines(f, Last.player) = {}
     /\ Cardinality(done) <= 2
     /\ \A i \in done, j \in done :
          i # j => Cardinality(LineCells(i) \cap LineCells(j)) = 1
     /\ (ret.op = "won" /\ done # {}) =>
          ret.val = <<TRUE, GridLines[CHOOSE i \in done : \A j \in done : i <= j]>>

\* The ninth move went to the centre and completed both diagonals; won()
\* returns the main diagonal.
C13_Witness ==
  /\ ret.op = "won"
  /\ moves = 9
  /\ CompleteLines(Last.fields, Last.opponent) = {7, 8}
  /\ ret.val = <<TRUE, << <<0, 0>>, <<1, 1>>, <<2, 2>> >> >>

\* ---- C18
\* C18: on every board of legal play minimax(b, True) and minimax(b, False)
\* return the same move and scores that are the negation of each other.
C18_FlagNegatesScore ==
  ret.op = "flags" =>
    /\ ret.asPlayer[1] = 0 - ret.asOpponent[1]
    /\ ret.asPlayer[2] = ret.asOpponent[2]

\* A non-terminal board that the side to move wins: WINNING with the flag
\* True, LOSING with the flag False, the same cell in both.
C18_Witness ==
  /\ ret.op = "flags"
  /\ ~GameOver(Last)
  /\ ret.asOpponent[1] = WINNING
  /\ ret.asPlayer[1] = LOSING
  /\ ret.asOpponent[2] \in EmptyCells(Last.fields)
  /\ ret.asPlayer[2] = ret.asOpponent[2]

\* ---- C19
\* C19: on every board of legal play and for either flag minimax returns a
\* score among LOSING, TIE, WINNING (never INT32_MIN or INT32_MAX); the
\* move is None exactly when the board is terminal (a complete line of the
\* side that moved last, or no empty cell), and otherwise the coordinate
\* of a cell that is empty on the board.
C19_ScoreAndMoveRange ==
  ret.op = "minimax" =>
    /\ ret.val[1] \in {LOSING, TIE, WINNING}
    /\ ret.val[1] \notin {INT32_MIN, INT32_MAX}
    /\ ret.val[2] = None <=> (won(Last)[1] \/ no_empty(Last.fields))
    /\ ret.val[2] # None => ret.val[2] \in EmptyCells(Last.fields)

\* The minimizing flag on a non-terminal board: a tie and an empty cell.
C19_Witness ==
  /\ ret.op = "minimax" /\ ~ret.flag
  /\ ~GameOver(Last)
  /\ moves >= 1
  /\ ret.val[1] = TIE
  /\ ret.val[2] \in EmptyCells(Last.fields)

\* ---- C14
\* C14: in every run of the driver loop, in both modes, check_win prints
\* "Tie!" only for a full board on which no line of either mark is
\* complete, although it tests no_empty() before won().
C14_TieOnlyWithoutLine ==
  said = "Tie!" =>
    /\ EmptyCells(Last.fields) = {}
    /\ ~HasLine(Last.fields, TIC)
    /\ ~HasLine(Last.fields, TAC)

\* A tie announced in a human-vs-bot game after the human's fifth move.
C14_Witness ==
  /\ ~bot_vs_bot
  /\ said = "Tie!"
  /\ pc = "history"
  /\ moves = 9
  /\ Last.opponent = TIC
  /\ ~HasLine(Last.fields, TIC) /\ ~HasLine(Last.fields, TAC)

\* ---- C15
\* C15: in every run of the driver loop each bot turn starts on a
\* non-terminal board; after the opening move best() returns a coordinate,
\* not None, of a cell in range that is empty on the board; and no bot turn
\* ends with an exception, whether from the driver's assert or from the
\* two assertions of move (the random opening move included).
C15_BotTurnNeverFails ==
  /\ [](BotTurn =>
         /\ ~won(Last)[1] /\ ~no_empty(Last.fields)
         /\ Len(game_history) > 0 =>
              LET mv == best(Last) IN
              /\ mv # None
              /\ mv \in Range \X Range
              /\ Last.fields[mv] = EMPTY)
  /\ [][BotTurn => (pc' # "raised" /\ ret' = ret /\ moves' = moves + 1)]_vars

\* BotB has just moved in a human-vs-bot game, completing a line.
C15_Witness ==
  /\ ~bot_vs_bot
  /\ pc = "check1"
  /\ moves = 6
  /\ Len(game_history) = 6
  /\ HasLine(Last.fields, TAC)
  /\ ret = NoCall

\* ---- C16
\* Board c is board b with one more mark, the mark of the side to move on b.
OneMoveOn(b, c) ==
  \E p \in EmptyCells(b.fields) : c = moveV(b, p)

\* C16: every game of the driver loop ends: unless an input raises an
\* exception (which only a human turn does) the loop is left through
\* check_win returning True and main() returns; at most 9 moves are
\* applied; a move is applied only at game_iter, right after check_win
\* returned False, to a board with an empty cell and no complete line; and
\* game_history lists the boards reached, one per applied move, in order,
\* each one move on from the one before, the last being `last`.
C16_GameTerminates ==
  /\ <>(pc = "exit" \/ pc = "raised")
  /\ [][pc' = "raised" => (~bot_vs_bot /\ pc = "iter1")]_vars
  /\ [][pc' = "history" =>
         (pc \in {"check1", "check2"} /\ said' # "" /\ GameOver(Last))]_vars
  /\ [](moves <= SIZE * SIZE)
  /\ [][moves' # moves =>
         /\ pc \in {"iter1", "iter2"}
         /\ said = ""
         /\ ~GameOver(Last)
         /\ moves' = moves + 1
         /\ OneMoveOn(Last, Last')]_vars
  /\ [](/\ Len(game_history) = moves
        /\ \A k \in 1 .. Len(game_history) :
             /\ Filled(View(Heap, game_history[k]).fields) = k
             /\ OneMoveOn(IF k = 1 THEN NewBoard
                          ELSE View(Heap, game_history[k - 1]),
                          View(Heap, game_history[k]))
        /\ moves > 0 => last = game_history[Len(game_history)])

\* main() has returned after a game of exactly 9 applied moves.
C16_Witness ==
  /\ pc = "exit"
  /\ moves = SIZE * SIZE
  /\ Len(game_history) = SIZE * SIZE
  /\ last = game_history[SIZE * SIZE]
  /\ said = "Tie!"

\* ---- C17
\* C17: in bot-vs-bot mode, whichever of the 9 cells the random opening
\* move takes, no board of the game has a complete line of either mark,
\* and the game ends with "Tie!" on a full board.
C17_BotVsBotTie ==
  /\ [](bot_vs_bot =>
         /\ \A r \in 1 .. Len(objs) :
              /\ ~HasLine(View(Heap, r).fields, TIC)
              /\ ~HasLine(View(Heap, r).fields, TAC)
         /\ said \in {"", "Tie!"}
         /\ pc # "raised"
         /\ pc \in {"history", "exit"} =>
              (said = "Tie!" /\ Filled(Last.fields) = SIZE * SIZE))
  /\ (bot_vs_bot => <>(pc = "exit" /\ said = "Tie!" /\ moves = SIZE * SIZE))

\* A bot-vs-bot game that opened in the last cell of the scan has ended.
C17_Witness ==
  /\ bot_vs_bot
  /\ pc = "exit"
  /\ said = "Tie!"
  /\ View(Heap, game_history[1]).fields[<<2, 2>>] = TIC
  /\ Filled(Last.fields) = SIZE * SIZE
====
